---- MODULE Spec2Model ----
(***************************************************************************)
(* Model of the stroke-history render/cache engine of document.py          *)
(* (Layer.rerender, Layer.populate_cache, strokes_from_to).                *)
(*                                                                         *)
(* A stroke object is represented by an integer identity: list equality    *)
(* of strokes in the source is identity comparison (Stroke defines no      *)
(* __eq__).  The Surface collaborator (tilelib.TiledLayer) is represented  *)
(* by what its pixels are a function of: the background loaded and the     *)
(* strokes replayed since the last clear/load.                             *)
(***************************************************************************)
EXTENDS Integers, Sequences, FiniteSets, TLC

VARIABLES
    strokes,      \* Layer.strokes (mutated directly by the caller)
    background,   \* Layer.background
    rendered,     \* Layer.rendered: [strokes, background]
    caches,       \* Layer.caches: sequence of [strokes, background, snapshot]
    surface,      \* pixel content of Layer.surface: [background, strokes]
    cost,         \* value returned by the last rerender call
    ops,          \* collaborator calls made by the last rerender call, in order
    call,         \* the last operation: [op, only_estimate_cost, strategy, raised]
    before,       \* Layer.rendered on entry to the last rerender call
    streak,       \* consecutive rerender(False) calls since the last mutation (capped at 2)
    mru,          \* the cache entries used most recently, least recent first
    calls,        \* number of rerender calls made in the append-and-rerender run
    objs,         \* the Stroke objects constructed so far, in order of construction
    serial,       \* the class attribute Stroke.serial_number
    sop,          \* the last Stroke operation: [op, i, arg, failed]
    alive         \* most snapshots referenced at one time during the last rerender call

vars == <<strokes, background, rendered, caches, surface, cost, ops, call,
          before, streak, mru, calls, objs, serial, sop, alive>>

strokeVars == <<objs, serial, sop>>
layerVars == <<strokes, background, rendered, caches, surface, cost, ops, call,
               before, streak, mru, calls, alive>>

----------------------------------------------------------------------------
(* Bounds of the model *)

MaxStrokes == 8
BranchAt == 4
MaxCalls == 60
MaxObjs == 3
MaxLong == 18

(* Program constants *)

infinity == 99999999
strokes_to_cache == 6
max_caches == 3
snapshot_penalty == 3

NoBackground == "None"
Backgrounds == {NoBackground, "bgA"}

(* The stroke lists the caller installs.  Stroke i of the main timeline has *)
(* identity i; after an undo to fewer than BranchAt strokes the caller may  *)
(* draw new strokes, which have identities -i.                              *)
MainLine(n) == [i \in 1..n |-> i]
BranchLine(n) == [i \in 1..n |-> IF i < BranchAt THEN i ELSE -i]
Histories == {MainLine(n) : n \in 0..MaxStrokes}
                 \cup {BranchLine(n) : n \in BranchAt..MaxStrokes}
StrokeIds == (1..MaxStrokes) \cup {-i : i \in BranchAt..MaxStrokes}

----------------------------------------------------------------------------
(* Python list slices *)

Min2(a, b) == IF a < b THEN a ELSE b

\* s[:n]
SliceTo(s, n) == SubSeq(s, 1, Min2(n, Len(s)))
\* s[n:]
SliceFrom(s, n) == SubSeq(s, n + 1, Len(s))

\* The result of strokes_from_to: None, or a list of strokes.
None == [none |-> TRUE, strokes |-> <<>>]
Some(s) == [none |-> FALSE, strokes |-> s]

\* strokes_from_to without the comparison of the backgrounds
strokes_from_to_any_background(a, b) ==
    LET n == Len(a.strokes)
    IN IF a.strokes = SliceTo(b.strokes, n)
       THEN Some(SliceFrom(b.strokes, n))
       ELSE None

\* strokes_from_to that also accepts b.strokes as a prefix of a.strokes
strokes_from_to_either_prefix(a, b) ==
    IF a.background # b.background
    THEN None
    ELSE LET n == Len(a.strokes)
         IN IF SliceTo(a.strokes, Len(b.strokes)) = SliceTo(b.strokes, n)
            THEN Some(SliceFrom(b.strokes, n))
            ELSE None

\* strokes_from_to with the slice b.strokes[n+1:] in place of b.strokes[n:]
strokes_from_to_skip_one(a, b) ==
    IF a.background # b.background
    THEN None
    ELSE LET n == Len(a.strokes)
         IN IF a.strokes = SliceTo(b.strokes, n)
            THEN Some(SliceFrom(b.strokes, n + 1))
            ELSE None

strokes_from_to(a, b) ==
    IF a.background # b.background
    THEN None
    ELSE LET n == Len(a.strokes)
         IN IF a.strokes = SliceTo(b.strokes, n)
            THEN Some(SliceFrom(b.strokes, n))
            ELSE None

\* "self" as seen by strokes_from_to
Self == [strokes |-> strokes, background |-> background]

count_strokes_from(ref) ==
    LET s == strokes_from_to(ref, Self)
    IN IF s.none THEN infinity ELSE Len(s.strokes)

----------------------------------------------------------------------------
(* The Surface collaborator and the log of calls made on it *)

Event(op, ss, bg) == [op |-> op, strokes |-> ss, background |-> bg]

surface_clear == [background |-> NoBackground, strokes |-> <<>>]
surface_load(bg) == [background |-> bg, strokes |-> <<>>]
surface_replay(sf, s) == [sf EXCEPT !.strokes = Append(@, s)]

\* Stroke.render(surface): replays the stroke's events on the surface.
stroke_render(st, s) ==
    [st EXCEPT !.surface = surface_replay(@, s),
               !.ops = Append(@, Event("render", <<s>>, NoBackground))]

----------------------------------------------------------------------------
(* Layer.populate_cache.  st is the state the running rerender works on:   *)
(* [rendered, caches, surface, ops, raised], and for the snapshots it      *)
(* keeps referenced: held, the positions in caches of the entries that     *)
(* local variables of rerender refer to; retained, the number of entries   *)
(* removed from caches while a local variable refers to them; alive, the   *)
(* most snapshots referenced at one time so far.                           *)

Max2(a, b) == IF a >= b THEN a ELSE b

RECURSIVE drop_caches(_)
drop_caches(st) ==
    IF Len(st.caches) > max_caches - 1
    THEN drop_caches([st EXCEPT
             !.caches = Tail(@),
             !.ops = Append(@, Event("drop", Head(st.caches).strokes,
                                     Head(st.caches).background)),
             !.held = {p - 1 : p \in @ \ {1}},
             !.retained = IF 1 \in st.held THEN @ + 1 ELSE @])
    ELSE st

\* close_enough that only recognises a cache of the very same point
close_enough_same_point(st) ==
    \E i \in 1..Len(st.caches) :
        LET new_strokes == strokes_from_to(st.caches[i], st.rendered)
        IN ~new_strokes.none /\ Len(new_strokes.strokes) < 1

close_enough(st) ==
    \E i \in 1..Len(st.caches) :
        LET new_strokes == strokes_from_to(st.caches[i], st.rendered)
        IN ~new_strokes.none /\ Len(new_strokes.strokes) < strokes_to_cache

add_cache(st) ==
    LET cache == [strokes |-> st.rendered.strokes,
                  background |-> st.rendered.background,
                  snapshot |-> st.surface]
    IN [st EXCEPT !.caches = Append(@, cache),
                  !.ops = Append(@, Event("save_snapshot", cache.strokes,
                                          cache.background)),
                  !.alive = Max2(@, Len(st.caches) + 1 + st.retained)]

\* populate_cache with <= in place of < in the test for too few strokes
populate_cache_late(st) ==
    IF Len(st.rendered.strokes) <= strokes_to_cache
    THEN st
    ELSE IF close_enough(st)
         THEN st
         ELSE add_cache(drop_caches(st))

populate_cache(st) ==
    IF Len(st.rendered.strokes) < strokes_to_cache
    THEN st
    ELSE IF close_enough(st)
         THEN st
         ELSE add_cache(drop_caches(st))

----------------------------------------------------------------------------
(* Layer.rerender *)

\* The local variable "caching": True, or the stroke from which on to cache.
\* caching_start without the deferral for long replays
caching_start_always(new_strokes) ==
    [on |-> TRUE, stroke |-> 0]

caching_start(new_strokes) ==
    IF Len(new_strokes) > 2 * strokes_to_cache
    THEN [on |-> FALSE,
          stroke |-> new_strokes[Len(new_strokes) - 2 * strokes_to_cache + 1]]
    ELSE [on |-> TRUE, stroke |-> 0]

\* caching_next that switches caching on at whatever stroke comes first
caching_next_any_stroke(caching, new_stroke) ==
    [on |-> TRUE, stroke |-> 0]

caching_next(caching, new_stroke) ==
    IF ~caching.on /\ caching.stroke = new_stroke
    THEN [on |-> TRUE, stroke |-> 0]
    ELSE caching

render_one(st, new_stroke, caching) ==
    LET st1 == stroke_render(st, new_stroke)
        st2 == [st1 EXCEPT !.rendered.strokes = Append(@, new_stroke)]
    IN IF caching_next(caching, new_stroke).on THEN populate_cache(st2) ELSE st2

RECURSIVE render_loop(_, _, _, _)
render_loop(st, new_strokes, i, caching) ==
    IF i > Len(new_strokes)
    THEN st
    ELSE render_loop(render_one(st, new_strokes[i], caching), new_strokes,
                     i + 1, caching_next(caching, new_strokes[i]))

render_new_strokes(st) ==
    LET new_strokes == strokes_from_to(st.rendered, Self)
    IN IF new_strokes.none
       THEN [st EXCEPT !.raised = TRUE]     \* len(None) raises TypeError
       ELSE LET done == render_loop(st, new_strokes.strokes, 1,
                                    caching_start(new_strokes.strokes))
            IN \* assert self.rendered.strokes == self.strokes
               IF done.rendered.strokes = strokes
               THEN done
               ELSE [done EXCEPT !.raised = TRUE]

RemoveAt(s, i) == SubSeq(s, 1, i - 1) \o SubSeq(s, i + 1, Len(s))

\* Where the entry at position p is after the entry at i moved to the end.
MovedTo(p, i, n) == IF p = i THEN n ELSE IF p > i THEN p - 1 ELSE p

\* render_cached without the move of the entry to the end of the list
render_cached_no_move(st, i) ==
    LET cache == st.caches[i]
        st1 == [st EXCEPT
                   !.surface = cache.snapshot,
                   !.ops = Append(@, Event("load_snapshot", cache.strokes,
                                           cache.background)),
                   !.rendered = [strokes |-> cache.strokes,
                                 background |-> cache.background]]
    IN render_new_strokes(st1)

\* render_cached that leaves self.rendered as it was
render_cached_stale_rendered(st, i) ==
    LET cache == st.caches[i]
        st1 == [st EXCEPT
                   !.caches = Append(RemoveAt(@, i), cache),
                   !.held = {MovedTo(p, i, Len(st.caches)) : p \in @},
                   !.surface = cache.snapshot,
                   !.ops = Append(@, Event("load_snapshot", cache.strokes,
                                           cache.background))]
    IN render_new_strokes(st1)

\* render_cached without the load of the entry's snapshot
render_cached_no_load(st, i) ==
    LET cache == st.caches[i]
        st1 == [st EXCEPT
                   !.caches = Append(RemoveAt(@, i), cache),
                   !.held = {MovedTo(p, i, Len(st.caches)) : p \in @},
                   !.rendered = [strokes |-> cache.strokes,
                                 background |-> cache.background]]
    IN render_new_strokes(st1)

render_cached(st, i) ==
    LET cache == st.caches[i]
        st1 == [st EXCEPT
                   !.caches = Append(RemoveAt(@, i), cache),
                   !.held = {MovedTo(p, i, Len(st.caches)) : p \in @},
                   !.surface = cache.snapshot,
                   !.ops = Append(@, Event("load_snapshot", cache.strokes,
                                           cache.background)),
                   !.rendered = [strokes |-> cache.strokes,
                                 background |-> cache.background]]
    IN render_new_strokes(st1)

\* render_from_empty that leaves rendered.background as it was
render_from_empty_stale_background(st) ==
    LET st1 == IF background # NoBackground
               THEN [st EXCEPT !.surface = surface_load(background),
                               !.ops = Append(@, Event("load", <<>>, background))]
               ELSE [st EXCEPT !.surface = surface_clear,
                               !.ops = Append(@, Event("clear", <<>>, NoBackground))]
        st2 == [st1 EXCEPT !.rendered.strokes = <<>>]
    IN render_new_strokes(st2)

render_from_empty(st) ==
    LET st1 == IF background # NoBackground
               THEN [st EXCEPT !.surface = surface_load(background),
                               !.ops = Append(@, Event("load", <<>>, background))]
               ELSE [st EXCEPT !.surface = surface_clear,
                               !.ops = Append(@, Event("clear", <<>>, NoBackground))]
        st2 == [st1 EXCEPT !.rendered = [strokes |-> <<>>,
                                         background |-> background]]
    IN render_new_strokes(st2)

\* The list "options" of (cost, function) pairs, in the order it is built.
Option(c, f, i) == [cost |-> c, f |-> f, cache |-> i]

\* cache_option without the penalty for loading a snapshot
cache_option_no_penalty(i) ==
    Option(count_strokes_from(caches[i]), "render_cached", i)

cache_option(i) ==
    Option(count_strokes_from(caches[i]) + snapshot_penalty, "render_cached", i)

\* the full rerender option without the penalty for loading the background
empty_option_no_penalty ==
    Option(Len(strokes), "render_from_empty", 0)

empty_option ==
    Option(Len(strokes) + (IF background # NoBackground THEN snapshot_penalty ELSE 0),
           "render_from_empty", 0)

options ==
    <<Option(count_strokes_from(rendered), "render_new_strokes", 0)>>
        \o [i \in 1..Len(caches) |-> cache_option(i)]
        \o <<empty_option>>

\* min(options): the pairs are compared as tuples, so pairs of equal cost
\* are ordered by comparing the two function objects, which Python 2 orders
\* by their addresses.  Any pair of minimal cost may be the result.
min_options(opts) ==
    {k \in 1..Len(opts) : \A j \in 1..Len(opts) : opts[k].cost <= opts[j].cost}

execute(option, st) ==
    IF option.f = "render_new_strokes" THEN render_new_strokes(st)
    ELSE IF option.f = "render_cached" THEN render_cached(st, option.cache)
    ELSE render_from_empty(st)

Start == [rendered |-> rendered, caches |-> caches, surface |-> surface,
          ops |-> <<>>, raised |-> FALSE,
          held |-> {}, retained |-> 0, alive |-> Len(caches)]

\* The state in which the chosen option runs.  The loop over self.caches
\* has left the local variable cache (and the default argument of the last
\* render_cached defined) bound to the last entry of the list; the local
\* variable render is bound to the chosen function, and a render_cached
\* keeps its entry as default argument.  The other functions went with
\* the options list.
Evaluated(option) ==
    [Start EXCEPT !.held =
        (IF Len(caches) > 0 THEN {Len(caches)} ELSE {})
        \cup (IF option.f = "render_cached" THEN {option.cache} ELSE {})]

----------------------------------------------------------------------------
(* The cache entries used most recently: an entry is used when it is       *)
(* created and when its snapshot is loaded.                                *)

IsUse(e) == e.op \in {"save_snapshot", "load_snapshot"}

use(m, e) ==
    LET key == [strokes |-> e.strokes, background |-> e.background]
        rest == SelectSeq(m, LAMBDA k : k # key)
        all == Append(rest, key)
    IN IF Len(all) > max_caches THEN Tail(all) ELSE all

RECURSIVE uses(_, _, _)
uses(m, log, i) ==
    IF i > Len(log) THEN m
    ELSE uses(IF IsUse(log[i]) THEN use(m, log[i]) ELSE m, log, i + 1)

----------------------------------------------------------------------------

(* class Stroke.  A Stroke object is [finished, rendered, serial_number,   *)
(* brush_settings, recording], recording standing for the attributes tdw   *)
(* and brush, which exist between start_recording and stop_recording.      *)
(* copied and changes are bookkeeping: whether copy() made the object, and *)
(* how many change_brush_settings calls on it succeeded (capped at 2).     *)
(* Each method yields [failed, obj]: an assert or attribute error leaves   *)
(* the object as it was.                                                   *)

BrushSettings == {"brushA", "brushB"}

StrokeOp(op, i, arg, failed) == [op |-> op, i |-> i, arg |-> arg, failed |-> failed]

Failed(o) == [failed |-> TRUE, obj |-> o]
Done(o) == [failed |-> FALSE, obj |-> o]

\* Stroke.__init__, the class attribute being n on entry
stroke_init(n) ==
    [finished |-> FALSE, rendered |-> FALSE, serial_number |-> n + 1,
     brush_settings |-> "unset", recording |-> FALSE,
     copied |-> FALSE, changes |-> 0]

stroke_start_recording(o, b) ==
    IF o.finished
    THEN Failed(o)
    ELSE Done([o EXCEPT !.brush_settings = b, !.recording = TRUE,
                        !.rendered = TRUE])

stroke_stop_recording(o) ==
    IF o.finished
    THEN Failed(o)
    ELSE IF ~o.recording
         THEN Failed(o)      \* self.tdw: AttributeError
         ELSE Done([o EXCEPT !.recording = FALSE, !.finished = TRUE])

\* Stroke.render without its assert
stroke_object_render_unchecked(o) ==
    Done([o EXCEPT !.rendered = TRUE])

stroke_object_render(o) ==
    IF ~o.finished
    THEN Failed(o)
    ELSE Done([o EXCEPT !.rendered = TRUE])

\* Stroke.copy, the class attribute being n on entry: s = Stroke(), then
\* s.__dict__.update(self.__dict__) overwrites every instance attribute of
\* s, serial_number included, then s.rendered = False.
stroke_copy(o, n) ==
    IF ~o.finished
    THEN Failed(o)
    ELSE LET s == stroke_init(n)
             updated == [s EXCEPT !.finished = o.finished,
                                  !.rendered = o.rendered,
                                  !.serial_number = o.serial_number,
                                  !.brush_settings = o.brush_settings]
         IN Done([updated EXCEPT !.rendered = FALSE, !.copied = TRUE])

\* change_brush_settings with "assert self.rendered"
stroke_change_brush_settings_inverted(o, b) ==
    IF ~o.finished
    THEN Failed(o)
    ELSE IF ~o.rendered
         THEN Failed(o)
         ELSE Done([o EXCEPT !.brush_settings = b,
                             !.changes = IF @ < 2 THEN @ + 1 ELSE 2])

stroke_change_brush_settings(o, b) ==
    IF ~o.finished
    THEN Failed(o)
    ELSE IF o.rendered
         THEN Failed(o)
         ELSE Done([o EXCEPT !.brush_settings = b,
                             !.changes = IF @ < 2 THEN @ + 1 ELSE 2])

----------------------------------------------------------------------------

Call(op, est, f, r) ==
    [op |-> op, only_estimate_cost |-> est, strategy |-> f, raised |-> r]

Init ==
    /\ strokes = <<>>
    /\ background = NoBackground
    /\ rendered = [strokes |-> <<>>, background |-> NoBackground]
    /\ caches = <<>>
    /\ surface = surface_clear
    /\ cost = 0
    /\ ops = <<>>
    /\ call = Call("init", FALSE, "none", FALSE)
    /\ before = rendered
    /\ streak = 0
    /\ mru = <<>>
    /\ calls = 0
    /\ objs = <<>>
    /\ serial = 0
    /\ sop = StrokeOp("init", 0, "unset", FALSE)
    /\ alive = 0

\* What every caller mutation does to the bookkeeping variables.
Mutated ==
    /\ cost' = 0
    /\ ops' = <<>>
    /\ call' = Call("mutate", FALSE, "none", FALSE)
    /\ before' = rendered
    /\ streak' = 0
    /\ alive' = Len(caches)
    /\ UNCHANGED <<rendered, caches, surface, mru>>
    /\ UNCHANGED strokeVars

AppendStroke ==
    /\ \E s \in StrokeIds :
          /\ Append(strokes, s) \in Histories
          /\ strokes' = Append(strokes, s)
    /\ Mutated
    /\ UNCHANGED <<background, calls>>

TruncateStrokes ==
    /\ \E n \in 0..(Len(strokes) - 1) : strokes' = SubSeq(strokes, 1, n)
    /\ Mutated
    /\ UNCHANGED <<background, calls>>

ReplaceStrokes ==
    /\ \E h \in Histories : h # strokes /\ strokes' = h
    /\ Mutated
    /\ UNCHANGED <<background, calls>>

SetBackground ==
    /\ \E b \in Backgrounds : b # background /\ background' = b
    /\ Mutated
    /\ UNCHANGED <<strokes, calls>>

\* The outcome of one rerender call that ends in st, having returned c.
Returns(only_estimate_cost, c, f, st) ==
    /\ cost' = c
    /\ rendered' = st.rendered
    /\ caches' = st.caches
    /\ surface' = st.surface
    /\ ops' = st.ops
    /\ call' = Call("rerender", only_estimate_cost, f, st.raised)
    /\ before' = rendered
    /\ streak' = IF only_estimate_cost THEN streak
                 ELSE IF streak < 2 THEN streak + 1 ELSE 2
    /\ mru' = uses(mru, st.ops, 1)
    /\ alive' = st.alive
    /\ UNCHANGED <<strokes, background>>
    /\ UNCHANGED strokeVars

\* rerender without the early exit
rerender_no_early_exit(only_estimate_cost) ==
    \E k \in min_options(options) :
        Returns(only_estimate_cost, options[k].cost, options[k].f,
                IF only_estimate_cost THEN Start
                ELSE execute(options[k], Evaluated(options[k])))

\* rerender that tests only_estimate_cost on the early exit only
rerender_estimate_executes(only_estimate_cost) ==
    LET c == count_strokes_from(rendered)
    IN IF c <= 1
       THEN Returns(only_estimate_cost, c, "early_exit",
                    IF c > 0 /\ ~only_estimate_cost
                    THEN render_new_strokes(Start) ELSE Start)
       ELSE \E k \in min_options(options) :
                Returns(only_estimate_cost, options[k].cost, options[k].f,
                        execute(options[k], Evaluated(options[k])))

rerender(only_estimate_cost) ==
    LET c == count_strokes_from(rendered)
    IN IF c <= 1
       THEN \* no need to evaluate other options
            Returns(only_estimate_cost, c, "early_exit",
                    IF c > 0 /\ ~only_estimate_cost
                    THEN render_new_strokes(Start) ELSE Start)
       ELSE \E k \in min_options(options) :
                Returns(only_estimate_cost, options[k].cost, options[k].f,
                        IF only_estimate_cost THEN Start
                        ELSE execute(options[k], Evaluated(options[k])))

Rerender ==
    /\ \E only_estimate_cost \in BOOLEAN : rerender(only_estimate_cost)
    /\ UNCHANGED calls

Next ==
    \/ AppendStroke
    \/ TruncateStrokes
    \/ ReplaceStrokes
    \/ SetBackground
    \/ Rerender

Spec == Init /\ [][Next]_vars

----------------------------------------------------------------------------
(* Strokes appended one at a time to a fresh Layer, rerender(False) after  *)
(* each append.                                                            *)

AppendNew ==
    /\ call.op # "mutate"
    /\ calls < MaxCalls
    /\ strokes' = Append(strokes, Len(strokes) + 1)
    /\ Mutated
    /\ UNCHANGED <<background, calls>>

RerenderNew ==
    /\ call.op = "mutate"
    /\ rerender(FALSE)
    /\ calls' = calls + 1

NextAppendRun ==
    \/ AppendNew
    \/ RerenderNew

SpecAppendRun == Init /\ [][NextAppendRun]_vars

----------------------------------------------------------------------------
(* Long replays: the caller installs stroke lists of up to MaxLong strokes *)
(* of one timeline, changes the background, and calls rerender.  The       *)
(* lengths installed are the multiples of strokes_to_cache and one more.   *)

LongHistories ==
    {MainLine(n) : n \in {m \in 0..MaxLong : m % strokes_to_cache <= 1}}

InstallStrokes ==
    /\ \E h \in LongHistories : h # strokes /\ strokes' = h
    /\ Mutated
    /\ UNCHANGED <<background, calls>>

NextLong ==
    \/ InstallStrokes
    \/ SetBackground
    \/ Rerender

SpecLong == Init /\ [][NextLong]_vars

----------------------------------------------------------------------------
(* The operations on Stroke objects *)

\* A method call on objs[i] with result r.
Called(op, i, arg, r) ==
    /\ objs' = [objs EXCEPT ![i] = r.obj]
    /\ sop' = StrokeOp(op, i, arg, r.failed)
    /\ UNCHANGED serial
    /\ UNCHANGED layerVars

NewStroke ==
    /\ Len(objs) < MaxObjs
    /\ objs' = Append(objs, stroke_init(serial))
    /\ serial' = serial + 1
    /\ sop' = StrokeOp("init", Len(objs) + 1, "unset", FALSE)
    /\ UNCHANGED layerVars

StartRecording ==
    \E i \in 1..Len(objs) : \E b \in BrushSettings :
        Called("start_recording", i, b, stroke_start_recording(objs[i], b))

StopRecording ==
    \E i \in 1..Len(objs) :
        Called("stop_recording", i, "unset", stroke_stop_recording(objs[i]))

RenderStroke ==
    \E i \in 1..Len(objs) :
        Called("render", i, "unset", stroke_object_render(objs[i]))

CopyStroke ==
    \E i \in 1..Len(objs) :
        LET r == stroke_copy(objs[i], serial)
        IN /\ Len(objs) < MaxObjs
           /\ IF r.failed
              THEN UNCHANGED <<objs, serial>>
              ELSE /\ objs' = Append(objs, r.obj)
                   /\ serial' = serial + 1
           /\ sop' = StrokeOp("copy", i, "unset", r.failed)
           /\ UNCHANGED layerVars

ChangeBrushSettings ==
    \E i \in 1..Len(objs) : \E b \in BrushSettings :
        Called("change_brush_settings", i, b,
               stroke_change_brush_settings(objs[i], b))

NextStroke ==
    \/ NewStroke
    \/ StartRecording
    \/ StopRecording
    \/ RenderStroke
    \/ CopyStroke
    \/ ChangeBrushSettings

SpecStroke == Init /\ [][NextStroke]_vars

----------------------------------------------------------------------------
(* Vocabulary of the properties *)

Returned(est) == call.op = "rerender" /\ call.only_estimate_cost = est
ReturnedNext(est) == call'.op = "rerender" /\ call'.only_estimate_cost = est

IsPrefix(s, t) == Len(s) <= Len(t) /\ \A i \in 1..Len(s) : s[i] = t[i]

Logged(o) == \E i \in 1..Len(ops) : ops[i].op = o
LoggedNext(o) == \E i \in 1..Len(ops') : ops'[i].op = o
RenderedStrokes(log) ==
    LET r == SelectSeq(log, LAMBDA e : e.op = "render")
    IN [i \in 1..Len(r) |-> r[i].strokes[1]]

CacheKeys == [i \in 1..Len(caches) |->
                 [strokes |-> caches[i].strokes, background |-> caches[i].background]]

\* The number of strokes to replay from a reference point, by definition.
RefCount(ref) ==
    IF ref.background = background /\ IsPrefix(ref.strokes, strokes)
    THEN Len(strokes) - Len(ref.strokes)
    ELSE infinity

CandidateCosts ==
    {RefCount(rendered)}
        \cup {RefCount(caches[i]) + 3 : i \in 1..Len(caches)}
        \cup {Len(strokes) + (IF background # NoBackground THEN 3 ELSE 0)}

MinCost == CHOOSE m \in CandidateCosts : \A c \in CandidateCosts : m <= c

----------------------------------------------------------------------------
\* C1: when rerender(False) returns, rendered.strokes equals the Layer's
\* strokes: same identities, same order, same length.
C1_RenderedEqualsStrokes ==
    Returned(FALSE) => rendered.strokes = strokes

C1_Witness ==
    /\ Returned(FALSE)
    /\ before.strokes # strokes
    /\ Len(RenderedStrokes(ops)) >= 2
    /\ rendered.strokes = strokes

\* C2: the cache list never holds more than 3 entries, and it is the list of
\* the (up to 3) entries used most recently, least recently used first.
C2_CachesAreMostRecentlyUsed ==
    /\ Len(caches) <= 3
    /\ CacheKeys = mru

C2_Witness ==
    /\ Len(caches) = 3
    /\ Logged("drop")
    /\ CacheKeys = mru

\* C3: a rerender(False) that directly follows a rerender(False) returns
\* cost 0, renders no stroke, calls nothing on the Surface and leaves
\* rendered and the cache list as they were.
C3_Idempotent ==
    [][(Returned(FALSE) /\ ReturnedNext(FALSE))
          => /\ cost' = 0
             /\ ops' = <<>>
             /\ ~call'.raised
             /\ UNCHANGED <<rendered, caches, surface>>]_vars

C3_Witness ==
    /\ streak = 2
    /\ Returned(FALSE)
    /\ cost = 0
    /\ strokes # <<>>
    /\ caches # <<>>

\* C4: rerender(True) changes neither the Surface, nor rendered, nor the
\* cache list, nor the Layer's strokes and background, and renders nothing.
C4_EstimateMutatesNothing ==
    [][ReturnedNext(TRUE)
          => /\ ops' = <<>>
             /\ UNCHANGED <<surface, rendered, caches, strokes, background>>]_vars

C4_Witness ==
    /\ Returned(TRUE)
    /\ cost > 1
    /\ call.strategy = "render_cached"
    /\ rendered.strokes # strokes

\* C5: the cost rerender returns, in either mode, is the least of the costs
\* of the candidates: continuing from rendered, each cache entry plus 3, and
\* the full rebuild (all strokes, plus 3 when a background is set).
C5_CostIsMinimum ==
    [][call'.op = "rerender" => cost' = MinCost]_vars

C5_Witness ==
    /\ call.op = "rerender"
    /\ call.strategy = "render_cached"
    /\ 3 <= cost
    /\ cost < Len(strokes)

\* C6: among candidates of equal least cost, rerender(False) executes the
\* one listed first: continue, then the cache entries in list order, then the
\* full rebuild.
FirstCheapest ==
    CHOOSE k \in 1..Len(options) :
        /\ options[k].cost = MinCost
        /\ \A j \in 1..(k - 1) : options[j].cost # MinCost

C6_FirstListedWins ==
    [][(ReturnedNext(FALSE) /\ call'.strategy # "early_exit")
          => call'.strategy = options[FirstCheapest].f]_vars

\* C7: count_strokes_from(reference) is the sentinel whenever the backgrounds
\* differ, whatever the strokes, and whenever reference.strokes is no prefix
\* of the Layer's strokes; otherwise it is the difference of the lengths.
References == [strokes : Histories, background : Backgrounds]

C7_CountStrokesFrom ==
    \A ref \in References \cup {rendered} :
        /\ ref.background # background => count_strokes_from(ref) = infinity
        /\ ~IsPrefix(ref.strokes, strokes) => count_strokes_from(ref) = infinity
        /\ (ref.background = background /\ IsPrefix(ref.strokes, strokes))
              => count_strokes_from(ref) = Len(strokes) - Len(ref.strokes)

C7_Witness ==
    /\ call.op = "rerender"
    /\ before.background # background
    /\ IsPrefix(before.strokes, strokes)
    /\ Len(before.strokes) < Len(strokes)
    /\ count_strokes_from(before) = infinity
    /\ call.strategy = "render_from_empty"

\* C8: when the strokes were cut back to a proper prefix of rendered.strokes
\* with fewer than 6 strokes, count_strokes_from(rendered) is the sentinel and
\* rerender(False) does the full rebuild: clear (or load the background),
\* then replay every stroke.
FullRebuildLog ==
    <<IF background # NoBackground
      THEN Event("load", <<>>, background)
      ELSE Event("clear", <<>>, NoBackground)>>
        \o [i \in 1..Len(strokes) |-> Event("render", <<strokes[i]>>, NoBackground)]

ShortUndo ==
    /\ IsPrefix(strokes, before.strokes)
    /\ Len(strokes) < Len(before.strokes)
    /\ Len(strokes) < 6

C8_ShortUndoRebuilds ==
    (Returned(FALSE) /\ ShortUndo)
        => /\ count_strokes_from(before) = infinity
           /\ call.strategy = "render_from_empty"
           /\ ops = FullRebuildLog
           /\ rendered = Self

C8_Witness ==
    /\ Returned(FALSE)
    /\ ShortUndo
    /\ Len(before.strokes) = 8
    /\ Len(strokes) = 3
    /\ caches # <<>>
    /\ ops = FullRebuildLog

\* C9: when rendered is a prefix of the strokes with the same background and
\* at most one stroke is missing, rerender(False) returns a cost <= 1 by the
\* early exit: no clear, no background load, no snapshot load, the cache
\* entries keep their order, and only the missing stroke is rendered.
KeepsOrder ==
    \E d \in 0..Len(caches) : \E a \in 0..Len(caches') :
        SubSeq(caches, d + 1, Len(caches)) = SubSeq(caches', 1, Len(caches') - a)

C10_AppendRun ==
    /\ Len(caches) <= 3
    /\ calls \in 1..5 => caches = <<>>
    /\ calls \in 6..10 => caches # <<>>
    /\ (calls = 6 /\ call.op = "rerender") => Logged("save_snapshot")

C10_Witness ==
    /\ calls = 6
    /\ call.op = "rerender"
    /\ Len(caches) = 1
    /\ caches[1].strokes = MainLine(6)
    /\ Logged("save_snapshot")

\* C11: when rendered is incompatible with the strokes/background and cache
\* entry i is a prefix of the strokes with k strokes missing, k + 3 being
\* strictly the least candidate cost, rerender(False) returns k + 3, moves
\* the entry to the end of the cache list, loads its snapshot once, before
\* any render, renders exactly the k missing strokes in order, and neither
\* clears the Surface nor loads a background.
CountLogged(log, o) == Len(SelectSeq(log, LAMBDA e : e.op = o))

StrictlyCheapest(i) ==
    /\ RefCount(rendered) = infinity
    /\ RefCount(caches[i]) < infinity
    /\ \A j \in 1..Len(caches) :
          j # i => RefCount(caches[i]) < RefCount(caches[j])
    /\ RefCount(caches[i]) + 3
          < Len(strokes) + (IF background # NoBackground THEN 3 ELSE 0)

C11_CacheHit ==
    [][\A i \in 1..Len(caches) :
          (ReturnedNext(FALSE) /\ StrictlyCheapest(i))
             => /\ cost' = RefCount(caches[i]) + 3
                /\ call'.strategy = "render_cached"
                /\ ~call'.raised
                /\ ops'[1] = Event("load_snapshot", caches[i].strokes,
                                   caches[i].background)
                /\ CountLogged(ops', "load_snapshot") = 1
                /\ RenderedStrokes(ops') = SliceFrom(strokes, Len(caches[i].strokes))
                /\ ~LoggedNext("clear")
                /\ ~LoggedNext("load")
                /\ caches'[Len(caches') - CountLogged(ops', "save_snapshot")]
                      = caches[i]
                /\ rendered' = [strokes |-> strokes,
                                background |-> caches[i].background]
                /\ surface' = [caches[i].snapshot EXCEPT
                                  !.strokes = @ \o RenderedStrokes(ops')]]_vars

C11_Witness ==
    /\ Returned(FALSE)
    /\ call.strategy = "render_cached"
    /\ RefCount(before) = infinity
    /\ cost = 5
    /\ ops[1].op = "load_snapshot"
    /\ RenderedStrokes(ops) = SliceFrom(strokes, Len(strokes) - 2)
    /\ Len(caches) = 3
    /\ CacheKeys[3] = [strokes |-> ops[1].strokes, background |-> ops[1].background]

----------------------------------------------------------------------------
\* C12: no two Stroke objects carry the same serial_number, and the Stroke
\* returned by copy() has a serial number greater than that of its original.
C12_SerialNumbersDistinct ==
    /\ \A i, j \in 1..Len(objs) :
          i # j => objs[i].serial_number # objs[j].serial_number
    /\ (sop.op = "copy" /\ ~sop.failed)
          => objs[Len(objs)].serial_number > objs[sop.i].serial_number

\* C13: on a Stroke made by copy() and not rendered yet, the first
\* change_brush_settings call succeeds and overwrites the brush settings,
\* and a second call fails.
ChangesNext(i) == sop'.op = "change_brush_settings" /\ sop'.i = i

OnFinished == {"start_recording", "stop_recording"}
OnUnfinished == {"render", "copy", "change_brush_settings"}

C14_LifecycleEnforced ==
    [][/\ \A i \in 1..Len(objs) :
             /\ (sop'.i = i /\ sop'.op \in OnFinished /\ objs[i].finished)
                   => sop'.failed
             /\ (sop'.i = i /\ sop'.op \in OnUnfinished /\ ~objs[i].finished)
                   => sop'.failed
             /\ (ChangesNext(i) /\ objs[i].rendered) => sop'.failed
             /\ objs[i].finished => objs'[i].finished
       /\ sop'.failed => objs' = objs]_vars

C14_Witness ==
    /\ sop.op = "change_brush_settings"
    /\ sop.failed
    /\ objs[sop.i].finished
    /\ objs[sop.i].rendered
    /\ \E j \in 1..Len(objs) : ~objs[j].finished /\ objs[j].recording

----------------------------------------------------------------------------
\* C15: when one rerender(False) replays more than 12 strokes, no cache
\* entry is created while more than 6 strokes remain to be replayed.
RendersAfter(log, j) ==
    CountLogged(SubSeq(log, j + 1, Len(log)), "render")

CreatedWith(log) ==
    {RendersAfter(log, j) : j \in {i \in 1..Len(log) : log[i].op = "save_snapshot"}}

LongReplay == Returned(FALSE) /\ CountLogged(ops, "render") > 12

C15_DeferredToLastSix ==
    LongReplay => \A r \in CreatedWith(ops) : r <= 6

\* C15 as amended: when one rerender(False) replays more than 12 strokes,
\* all of them distinct Stroke objects, no cache entry is created while 12 or
\* more strokes remain to be replayed.
C15_DeferredToLastTwelve ==
    LongReplay => \A r \in CreatedWith(ops) : r < 12

C15_Witness ==
    /\ LongReplay
    /\ 11 \in CreatedWith(ops)
    /\ 5 \in CreatedWith(ops)

----------------------------------------------------------------------------
\* C16: the cache list never holds two entries with the same background
\* whose stroke sequences are one a prefix of the other and differ in length
\* by fewer than 6 strokes.
CloseBehind(a, b) ==
    /\ a.background = b.background
    /\ IsPrefix(a.strokes, b.strokes)
    /\ Len(b.strokes) - Len(a.strokes) < 6

C16_NoNearDuplicates ==
    \A i, j \in 1..Len(caches) : i # j => ~CloseBehind(caches[i], caches[j])

\* C16 as amended: populate_cache creates no entry when an entry of the list
\* has the same background, is a prefix of the rendered strokes and is fewer
\* than 6 strokes shorter; an entry that is longer than the rendered strokes
\* does not prevent the creation.
EventKey(e) == [strokes |-> e.strokes, background |-> e.background]

\* The cache list (as keys) after one logged event.
ListAfter(list, e) ==
    IF e.op = "drop" THEN Tail(list)
    ELSE IF e.op = "save_snapshot" THEN Append(list, EventKey(e))
    ELSE IF e.op = "load_snapshot"
         THEN Append(SelectSeq(list, LAMBDA k : k # EventKey(e)), EventKey(e))
         ELSE list

RECURSIVE ListAt(_, _, _)
ListAt(list, log, j) ==
    IF j = 0 THEN list ELSE ListAfter(ListAt(list, log, j - 1), log[j])

\* The last event before event j that is no drop: populate_cache tests the
\* list before it drops entries.
RECURSIVE BeforeDrops(_, _)
BeforeDrops(log, j) ==
    IF j = 0 \/ log[j].op # "drop" THEN j ELSE BeforeDrops(log, j - 1)

C16_NoCloseEntryBehind ==
    [][ReturnedNext(FALSE) =>
          \A j \in 1..Len(ops') :
              ops'[j].op = "save_snapshot" =>
                  LET list == ListAt(CacheKeys, ops', BeforeDrops(ops', j - 1))
                  IN \A i \in 1..Len(list) :
                         ~CloseBehind(list[i], EventKey(ops'[j]))]_vars

C16_Witness ==
    /\ Returned(FALSE)
    /\ Logged("save_snapshot")
    /\ \E i, j \in 1..Len(caches) :
          /\ i < j
          /\ CloseBehind(caches[j], caches[i])
          /\ Len(caches[j].strokes) < Len(caches[i].strokes)

----------------------------------------------------------------------------
\* C17: at every point of a rerender call no snapshot of an entry removed
\* from the cache list is still referenced, so that the number of snapshots
\* alive at one time never exceeds 3.
C17_EvictedReleased == alive <= max_caches

----------------------------------------------------------------------------
\* C18: in every reachable state the content of the surface is the
\* background of the rendered marker with the marker's strokes replayed on
\* it in order, and the snapshot of every cache entry, taken in the middle
\* of a replay, is the content for exactly the entry's background and
\* strokes; the caller's changes to strokes and background leave both true.
Content(ref) == [background |-> ref.background, strokes |-> ref.strokes]

C18_SnapshotsSound ==
    /\ surface = Content(rendered)
    /\ \A i \in 1..Len(caches) : caches[i].snapshot = Content(caches[i])

C18_Witness ==
    /\ call.op = "mutate"
    /\ rendered.background # NoBackground
    /\ Len(rendered.strokes) > 12
    /\ Content(rendered) # [background |-> background, strokes |-> strokes]
    /\ Len(caches) = max_caches
    /\ \E i \in 1..Len(caches) : Len(caches[i].strokes) \notin {0, 6, 12, 18}
    /\ \E i \in 1..Len(caches) : caches[i].background # rendered.background

----------------------------------------------------------------------------
\* C19: the cost returned by rerender(False) is the number of Stroke.render
\* calls it made, plus 3 if it loaded a snapshot or a background (plus 0 if
\* it cleared the surface or touched nothing); the option executed never
\* has the infinite cost and the replay never starts from a marker that is
\* not a prefix of the strokes.
Penalty == IF Logged("load_snapshot") \/ Logged("load") THEN 3 ELSE 0

C19_CostAccurate ==
    Returned(FALSE) =>
        /\ cost = CountLogged(ops, "render") + Penalty
        /\ cost < infinity
        /\ ~call.raised
        /\ \/ RefCount(before) < infinity
           \/ call.strategy \in {"render_cached", "render_from_empty"}

C19_Witness ==
    /\ Returned(FALSE)
    /\ call.strategy = "render_from_empty"
    /\ Logged("load")
    /\ RefCount(before) = infinity
    /\ CountLogged(ops, "render") = 4
    /\ cost = 7

----------------------------------------------------------------------------
\* C20: one rerender(False) creates at most 2 cache entries, whatever the
\* number of strokes it replays, and the entry whose snapshot it loaded is
\* still in the cache list when it returns.
Restored == EventKey(ops[1])

====
